---- MODULE Spec2Model ----
(***************************************************************************)
(* CO2_pred: a model of the two Streamlit scripts of the repository.       *)
(*                                                                         *)
(*   app.py   the prediction dashboard: download_era5 (a file cache keyed  *)
(*            by the constructed file name), extract_nearest_values (the   *)
(*            per-axis nearest grid index and the per-variable read) and   *)
(*            the prediction flow inside one try/except.                   *)
(*   oco2.py  the download utility: two fetches, a zip archive, the        *)
(*            read/concat/write of download_log.csv, two download buttons  *)
(*            and the removal of the three temporary files.                *)
(*                                                                         *)
(* Indices are 1-based here and 0-based in the source. Grid coordinates    *)
(* and field values are integers; the source holds floats.                 *)
(***************************************************************************)
EXTENDS Integers, Sequences, FiniteSets, TLC

VARIABLES
    call,       \* extract_nearest_values called on its own: the arguments
    ret,        \* ... and what the call returned or raised
    disk,       \* the file system: file name -> content
    requests,   \* app.py: how many retrieve requests its client has issued
    app,        \* app.py: one script run (the prediction flow)
    fetcher,    \* download_era5 called twice in succession: the two calls
    oco,        \* oco2.py: the script run of each session
    log_rows    \* oco2.py: the dates of the invocations whose to_csv completed, in order

vars == <<call, ret, disk, requests, app, fetcher, oco, log_rows>>

(***************************************************************************)
(* Bounds of the model.                                                    *)
(***************************************************************************)
MaxCoord == 2
MaxGridLen == 2
MaxReq == 2
MaxRuns == 3
MaxRequests == 4

\* Python's None, and a float: a dict value is one or the other.
None == <<>>
Float(x) == <<x>>

(***************************************************************************)
(* app.py: the name-translation table and the two request lists.           *)
(***************************************************************************)
VAR_MAP ==
    [v \in {"10m_u_component_of_wind", "10m_v_component_of_wind",
            "2m_temperature", "surface_pressure", "high_vegetation_cover",
            "low_vegetation_cover", "leaf_area_index_high_vegetation",
            "leaf_area_index_low_vegetation"} |->
        CASE v = "10m_u_component_of_wind" -> "u10"
          [] v = "10m_v_component_of_wind" -> "v10"
          [] v = "2m_temperature" -> "t2m"
          [] v = "surface_pressure" -> "sp"
          [] v = "high_vegetation_cover" -> "cvh"
          [] v = "low_vegetation_cover" -> "cvl"
          [] v = "leaf_area_index_high_vegetation" -> "lai_hv"
          [] v = "leaf_area_index_low_vegetation" -> "lai_lv"]

\* VAR_MAP.get(req_var, req_var)
VarMapGet(req_var) ==
    IF req_var \in DOMAIN VAR_MAP THEN VAR_MAP[req_var] ELSE req_var

meteo_vars ==
    <<"10m_u_component_of_wind", "10m_v_component_of_wind",
      "2m_temperature", "surface_pressure">>

veg_vars ==
    <<"high_vegetation_cover", "leaf_area_index_high_vegetation",
      "leaf_area_index_low_vegetation", "low_vegetation_cover">>

predictors ==
    <<"latitude", "longitude", "year", "month", "day", "sp", "t2m", "u10",
      "v10", "lai_hv", "lai_lv", "cvh", "cvl">>

Range(s) == {s[k] : k \in 1..Len(s)}

(***************************************************************************)
(* A data file as netCDF4 sees it: whether it opens, its two coordinate    *)
(* axes, and the names of its data fields. Every data field is a           *)
(* (time, latitude, longitude) cube; the cell (i, j) of every cube is      *)
(* taken to hold the cell's running number.                                *)
(***************************************************************************)
NcFile(readable, lat_values, lon_values, fields) ==
    [kind |-> "nc", readable |-> readable, latitude |-> lat_values,
     longitude |-> lon_values, fields |-> fields]

\* float(nc_file.variables[nc_var][0, lat_idx, lon_idx])
FieldValue(nc_file, lat_idx, lon_idx) ==
    Float((lat_idx - 1) * Len(nc_file.longitude) + lon_idx)

Abs(x) == IF x < 0 THEN -x ELSE x

\* argmin of a non-empty sequence: the scan keeps the first smallest element.
RECURSIVE ArgminFrom(_, _, _)
ArgminFrom(d, k, best) ==
    IF k > Len(d) THEN best
    ELSE ArgminFrom(d, k + 1, IF d[k] < d[best] THEN k ELSE best)

\* A slip: the differences are compared signed, without np.abs.
NearestIndexSigned(grid, q) ==
    ArgminFrom([k \in 1..Len(grid) |-> grid[k] - q], 1, 1)

\* np.abs(grid - q).argmin()
NearestIndex(grid, q) ==
    ArgminFrom([k \in 1..Len(grid) |-> Abs(grid[k] - q)], 1, 1)

\* values[nc_var] = ...: a dict assignment.
DictSet(d, key, value) ==
    [n \in DOMAIN d \cup {key} |-> IF n = key THEN value ELSE d[n]]

EmptyDict == [n \in {} |-> None]

\* The for loop of extract_nearest_values, from requested_vars[k] on.
RECURSIVE ExtractLoop(_, _, _, _, _, _)
ExtractLoop(nc_file, lat_idx, lon_idx, requested_vars, k, values) ==
    IF k > Len(requested_vars) THEN values
    ELSE LET nc_var == VarMapGet(requested_vars[k])
         IN  ExtractLoop(nc_file, lat_idx, lon_idx, requested_vars, k + 1,
                 DictSet(values, nc_var,
                     IF nc_var \in nc_file.fields
                     THEN FieldValue(nc_file, lat_idx, lon_idx)
                     ELSE None))

\* A slip: a field the dataset lacks is looked up all the same (KeyError).
ExtractFailsOnMissing(nc_file, lat, lon, requested_vars) ==
    IF ~nc_file.readable
       \/ \E k \in 1..Len(requested_vars) :
              VarMapGet(requested_vars[k]) \notin nc_file.fields
    THEN [raised |-> TRUE, values |-> EmptyDict, lat_idx |-> 0, lon_idx |-> 0]
    ELSE LET lon_idx == NearestIndex(nc_file.longitude, lon)
             lat_idx == NearestIndex(nc_file.latitude, lat)
         IN  [raised |-> FALSE,
              values |-> ExtractLoop(nc_file, lat_idx, lon_idx,
                                     requested_vars, 1, EmptyDict),
              lat_idx |-> lat_idx, lon_idx |-> lon_idx]

\* extract_nearest_values(nc_path, lat, lon, requested_vars), on the file at
\* nc_path. It raises when the file does not open as a dataset.
extract_nearest_values(nc_file, lat, lon, requested_vars) ==
    IF ~nc_file.readable
    THEN [raised |-> TRUE, values |-> EmptyDict, lat_idx |-> 0, lon_idx |-> 0]
    ELSE LET lon_idx == NearestIndex(nc_file.longitude, lon)
             lat_idx == NearestIndex(nc_file.latitude, lat)
         IN  [raised |-> FALSE,
              values |-> ExtractLoop(nc_file, lat_idx, lon_idx,
                                     requested_vars, 1, EmptyDict),
              lat_idx |-> lat_idx, lon_idx |-> lon_idx]

(***************************************************************************)
(* extract_nearest_values called on its own, on every small dataset.       *)
(***************************************************************************)
Coord == 0..MaxCoord
Queries == -1..(MaxCoord + 1)

SeqsUpTo(S, n) == UNION {[1..m -> S] : m \in 0..n}

\* The non-empty coordinate axes.
Grids == SeqsUpTo(Coord, MaxGridLen) \ {<<>>}

\* The names a caller may request: the request-facing names of VAR_MAP, one
\* name outside it, and one internal name passed as it is.
RequestNames == DOMAIN VAR_MAP \cup {"total_precipitation", "u10"}

\* The data fields the datasets of this harness are drawn from.
HarnessFields == {"u10", "v10", "cvh", "total_precipitation"}

NoCall == [made |-> FALSE]
NoRet == [returned |-> FALSE]

Quiet ==
    /\ disk = [f \in {} |-> None]
    /\ requests = 0
    /\ app = [pc |-> "off"]
    /\ fetcher = [pc |-> "off"]
    /\ oco = [pc |-> "off"]
    /\ log_rows = <<>>

\* Every pair of axes, with the two request lists of app.py's own fields.
InitGrids ==
    \E lat_values \in Grids, lon_values \in Grids, lat \in Queries, lon \in Queries :
        call = [made |-> TRUE,
                nc_file |-> NcFile(TRUE, lat_values, lon_values, {"u10", "sp"}),
                lat |-> lat, lon |-> lon, requested_vars |-> meteo_vars]

\* Every set of data fields and every short request list, on one grid.
InitFields ==
    \E readable \in BOOLEAN, fields \in SUBSET HarnessFields,
       requested_vars \in SeqsUpTo(RequestNames, MaxReq), lat \in {0, MaxCoord} :
        call = [made |-> TRUE,
                nc_file |-> NcFile(readable, <<2, 1, 0>>, <<0, 1, 2>>, fields),
                lat |-> lat, lon |-> 1, requested_vars |-> requested_vars]

InitExtract ==
    /\ InitGrids \/ InitFields
    /\ ret = NoRet
    /\ Quiet

ExtractCall ==
    /\ call.made /\ ~ret.returned
    /\ ret' = [returned |-> TRUE] @@
              extract_nearest_values(call.nc_file, call.lat, call.lon,
                                     call.requested_vars)
    /\ UNCHANGED <<call, disk, requests, app, fetcher, oco, log_rows>>

NextExtract == ExtractCall

SpecExtract == InitExtract /\ [][NextExtract]_vars

SeqMin(s) == CHOOSE x \in Range(s) : \A y \in Range(s) : x <= y
SeqMax(s) == CHOOSE x \in Range(s) : \A y \in Range(s) : x >= y

Nearest(grid, q, i) ==
    /\ i \in 1..Len(grid)
    /\ \A j \in 1..Len(grid) : Abs(grid[i] - q) <= Abs(grid[j] - q)
    /\ q <= SeqMin(grid) => grid[i] = SeqMin(grid)
    /\ q >= SeqMax(grid) => grid[i] = SeqMax(grid)

\* C2: on every non-empty latitude and longitude axis and for every query,
\* the index extract_nearest_values computes is a valid index whose grid value
\* is at least as close to the query as every other grid value, on each axis
\* by itself; a query beyond an end of the axis gets the value at that end.
C2_NearestIndex ==
    (ret.returned /\ ~ret.raised) =>
        /\ Nearest(call.nc_file.latitude, call.lat, ret.lat_idx)
        /\ Nearest(call.nc_file.longitude, call.lon, ret.lon_idx)

\* A query above the whole latitude axis and between two longitudes, on
\* axes of two different values each.
C2_Witness ==
    /\ ret.returned /\ ~ret.raised
    /\ Len(call.nc_file.latitude) >= 2 /\ Len(call.nc_file.longitude) >= 2
    /\ call.lat > SeqMax(call.nc_file.latitude)
    /\ SeqMin(call.nc_file.latitude) < SeqMax(call.nc_file.latitude)
    /\ call.nc_file.latitude[ret.lat_idx] = SeqMax(call.nc_file.latitude)
    /\ ret.lat_idx = 2
    /\ call.nc_file.longitude = <<0, 2>> /\ call.lon = 1 /\ ret.lon_idx = 1

\* C4: the call raises only when the file does not open; otherwise the
\* mapping has exactly the translated names of the requested variables as
\* its keys, the absence marker for exactly the keys that are no field of the
\* dataset, and the cell's number for every other key.
C4_MissingFields ==
    ret.returned =>
        /\ ret.raised <=> ~call.nc_file.readable
        /\ ~ret.raised =>
            /\ DOMAIN ret.values =
                   {VarMapGet(v) : v \in Range(call.requested_vars)}
            /\ \A n \in DOMAIN ret.values :
                   /\ ret.values[n] = None <=> n \notin call.nc_file.fields
                   /\ n \in call.nc_file.fields =>
                          ret.values[n] = FieldValue(call.nc_file, ret.lat_idx,
                                                     ret.lon_idx)

\* A request for one field the dataset has and one it lacks.
C4_Witness ==
    /\ ret.returned /\ ~ret.raised
    /\ call.requested_vars = <<"10m_u_component_of_wind", "surface_pressure">>
    /\ call.nc_file.fields = {"u10", "cvh"}
    /\ ret.values["u10"] # None /\ ret.values["sp"] = None

(***************************************************************************)
(* app.py: download_era5.                                                  *)
(***************************************************************************)
Digit(n) ==
    CASE n = 0 -> "0" [] n = 1 -> "1" [] n = 2 -> "2" [] n = 3 -> "3"
      [] n = 4 -> "4" [] n = 5 -> "5" [] n = 6 -> "6" [] n = 7 -> "7"
      [] n = 8 -> "8" [] n = 9 -> "9"

\* str(n) and f"{n}", n >= 0
RECURSIVE IntStr(_)
IntStr(n) == IF n < 10 THEN Digit(n) ELSE IntStr(n \div 10) \o Digit(n % 10)

\* f"{n:02d}", n >= 0
Pad2(n) == IF n < 10 THEN "0" \o Digit(n) ELSE IntStr(n)

\* os.path.join(save_path, nc_filename)
PathJoin(save_path, name) ==
    IF save_path = "" THEN name ELSE save_path \o "/" \o name

\* nc_path, as lines 80 and 81 build it
NcPath(year, month, day, save_path, prefix) ==
    PathJoin(save_path,
             prefix \o "_" \o IntStr(year) \o "-" \o Pad2(month) \o "-"
                 \o Pad2(day) \o ".nc")

Exists(fs, path) == path \in DOMAIN fs

\* The file system with `content` written at `path`.
WriteFile(fs, path, content) ==
    [f \in DOMAIN fs \cup {path} |-> IF f = path THEN content ELSE fs[f]]

\* A slip: the file stays.
RemoveFileKeeps(fs, path) == fs

\* os.remove(path) on an existing file
RemoveFile(fs, path) == [f \in DOMAIN fs \ {path} |-> fs[f]]

\* What client.retrieve(...).download(target) may do: raise, or write a
\* file that holds any of the requested fields on the archive's grid, or a
\* file that does not open as a dataset.
ArchiveLat == <<41, 40, 39>>
ArchiveLon == <<-76, -75, -74>>

Responses(variables) ==
    {[fail |-> TRUE]}
    \cup {[fail |-> FALSE, file |-> NcFile(FALSE, <<>>, <<>>, {})]}
    \cup {[fail |-> FALSE, file |-> NcFile(TRUE, ArchiveLat, ArchiveLon, fields)] :
              fields \in SUBSET {VarMapGet(v) : v \in Range(variables)}}

\* A slip: the request is issued whether or not the file is there.
download_era5_uncached(fs, reqs, year, month, day, save_path, variables, prefix, response) ==
    LET nc_path == NcPath(year, month, day, save_path, prefix)
    IN  IF response.fail
        THEN [raised |-> TRUE, nc_path |-> nc_path, disk |-> fs,
              requests |-> reqs + 1]
        ELSE [raised |-> FALSE, nc_path |-> nc_path,
              disk |-> WriteFile(fs, nc_path, response.file),
              requests |-> reqs + 1]

\* download_era5(year, month, day, save_path, variables, prefix) on the file
\* system fs after reqs requests, the archive answering with `response`:
\* whether it raised, the path it returns, the file system and the number of
\* requests after it.
download_era5(fs, reqs, year, month, day, save_path, variables, prefix, response) ==
    LET nc_path == NcPath(year, month, day, save_path, prefix)
    IN  IF Exists(fs, nc_path)
        THEN [raised |-> FALSE, nc_path |-> nc_path, disk |-> fs,
              requests |-> reqs]
        ELSE IF response.fail
        THEN [raised |-> TRUE, nc_path |-> nc_path, disk |-> fs,
              requests |-> reqs + 1]
        ELSE [raised |-> FALSE, nc_path |-> nc_path,
              disk |-> WriteFile(fs, nc_path, response.file),
              requests |-> reqs + 1]

Date(year, month, day) == [year |-> year, month |-> month, day |-> day]

\* The dates the date widgets offer here: one with a one-digit month and
\* one with a one-digit day.
Dates == {Date(2020, 6, 15), Date(2020, 11, 5)}

Prefixes == {"meteo", "veg"}

RequestList(prefix) == IF prefix = "meteo" THEN meteo_vars ELSE veg_vars

EmptyDisk == [f \in {} |-> None]

FullFile(variables) ==
    NcFile(TRUE, ArchiveLat, ArchiveLon, {VarMapGet(v) : v \in Range(variables)})

(***************************************************************************)
(* download_era5 called twice in succession with the same arguments.       *)
(***************************************************************************)
InitFetch ==
    /\ \E d \in Dates, prefix \in Prefixes, save_path \in {"era5_data", ""},
          other \in Prefixes, there \in BOOLEAN :
          /\ fetcher = [pc |-> "first", date |-> d, prefix |-> prefix,
                        save_path |-> save_path]
          /\ disk = IF there
                    THEN WriteFile(EmptyDisk,
                             NcPath(d.year, d.month, d.day, save_path, other),
                             FullFile(RequestList(other)))
                    ELSE EmptyDisk
    /\ requests = 0
    /\ call = NoCall /\ ret = NoRet
    /\ app = [pc |-> "off"] /\ oco = [pc |-> "off"] /\ log_rows = <<>>

FetchCall(which, next) ==
    /\ fetcher.pc = which
    /\ \E response \in Responses(RequestList(fetcher.prefix)) :
          LET r == download_era5(disk, requests, fetcher.date.year,
                       fetcher.date.month, fetcher.date.day, fetcher.save_path,
                       RequestList(fetcher.prefix), fetcher.prefix, response)
          IN  /\ disk' = r.disk
              /\ requests' = r.requests
              /\ fetcher' = [pc |-> next] @@
                     (which :> [raised |-> r.raised, nc_path |-> r.nc_path,
                                requests |-> r.requests, disk |-> r.disk,
                                was_there |-> Exists(disk, r.nc_path)])
                     @@ fetcher
    /\ UNCHANGED <<call, ret, app, oco, log_rows>>

FirstCall == FetchCall("first", "second")

SecondCall == FetchCall("second", "done")

NextFetch == FirstCall \/ SecondCall

SpecFetch == InitFetch /\ [][NextFetch]_vars

\* C3: when download_era5 is called twice in succession with the same date,
\* label and directory and the first call returns, the second call returns the
\* same path, issues no request and leaves the files as they are; over the two
\* calls one request is issued when the file was not there and none when it was.
C3_FetchIdempotent ==
    (fetcher.pc = "done" /\ ~fetcher.first.raised) =>
        /\ ~fetcher.second.raised
        /\ fetcher.second.nc_path = fetcher.first.nc_path
        /\ Exists(fetcher.first.disk, fetcher.first.nc_path)
        /\ fetcher.second.requests = fetcher.first.requests
        /\ fetcher.second.disk = fetcher.first.disk
        /\ requests = IF fetcher.first.was_there THEN 0 ELSE 1

\* Two calls for a file that was not there: the first one fetched it.
C3_Witness ==
    /\ fetcher.pc = "done" /\ ~fetcher.first.raised
    /\ ~fetcher.first.was_there
    /\ requests = 1
    /\ fetcher.second.nc_path = "era5_data/meteo_2020-06-15.nc"
    /\ Exists(disk, "era5_data/meteo_2020-06-15.nc")

(***************************************************************************)
(* app.py: one script run after another. Streamlit runs the script from    *)
(* the top on every interaction; the files under era5_data and             *)
(* st.session_state["last_clicked"] outlive a run. The credential file of  *)
(* lines 29 to 40 and the directory of line 151 are left out: a run that   *)
(* gets to the prediction flow has passed them.                            *)
(***************************************************************************)
save_dir == "era5_data"

\* The date the date widget offers, and the points a click can give.
AppDates == {Date(2020, 6, 15)}
Points == {<<40, -75>>, <<20, 0>>}

\* How lines 48 to 60 go: the bundle loads with both halves, or the file is
\* not there, or joblib.load raises, or a half is missing from the bundle.
Bundles == {"loaded", "no_file", "load_raises", "no_model", "no_scaler"}

\* {**values_meteo, **values_veg} and {..., **all_values}
DictMerge(a, b) ==
    [n \in DOMAIN a \cup DOMAIN b |-> IF n \in DOMAIN b THEN b[n] ELSE a[n]]

\* The row of lines 167 and 168, as column -> value.
FeatureRow(selected_date, lat, lon, all_values) ==
    DictMerge(
        DictMerge([c \in {"date", "latitude", "longitude"} |->
                       CASE c = "date" -> <<selected_date.year,
                                            selected_date.month,
                                            selected_date.day>>
                         [] c = "latitude" -> Float(lat)
                         [] c = "longitude" -> Float(lon)],
                  all_values),
        [c \in {"year", "month", "day"} |->
             CASE c = "year" -> Float(selected_date.year)
               [] c = "month" -> Float(selected_date.month)
               [] c = "day" -> Float(selected_date.day)])

\* A check of the values too, which the source does not make.
HasAllPredictorValues(df) ==
    \A k \in 1..Len(predictors) :
        predictors[k] \in DOMAIN df /\ df[predictors[k]] # None

\* all(col in df.columns for col in predictors)
HasAllPredictors(df) ==
    \A k \in 1..Len(predictors) : predictors[k] \in DOMAIN df

\* scaler_target.inverse_transform(model.predict(X_input)): the trained
\* model is not part of the repository; a stand-in that counts the
\* predictors that hold a value.
PredictCO2(df) ==
    Float(400 + Cardinality({k \in 1..Len(predictors) : df[predictors[k]] # None}))

AppFresh(bundle, last_clicked) ==
    [pc |-> "ui", bundle |-> bundle,
     model |-> bundle \in {"loaded", "no_scaler"},
     scaler_target |-> bundle \in {"loaded", "no_model"},
     startup_errors |-> IF bundle = "loaded" THEN 0 ELSE 1,
     last_clicked |-> last_clicked,
     selected_date |-> None, nc_meteo |-> "", nc_veg |-> "",
     values_meteo |-> EmptyDict, values_veg |-> EmptyDict, df |-> EmptyDict,
     extracted |-> 0, predict_called |-> FALSE, table |-> <<>>,
     errors |-> 0, infos |-> 0, raised_at |-> ""]

InitApp ==
    /\ disk = EmptyDisk
    /\ requests = 0
    /\ \E bundle \in Bundles : app = AppFresh(bundle, None)
    /\ call = NoCall /\ ret = NoRet
    /\ fetcher = [pc |-> "off"] /\ oco = [pc |-> "off"] /\ log_rows = <<>>

\* A slip: the handler shows nothing.
CaughtSilently(a, at) == [a EXCEPT !.pc = "done", !.raised_at = at]

\* except Exception as e: st.error(...)
Caught(a, at) ==
    [a EXCEPT !.pc = "done", !.errors = @ + 1, !.raised_at = at]

\* Lines 15 to 152: the page, the bundle, the two widgets and the test of
\* line 149. Without a date or a point the run ends with the hint.
AppUi ==
    /\ app.pc = "ui"
    /\ \E selected_date \in AppDates \cup {None}, clicked \in Points \cup {None} :
          LET last_clicked == IF clicked # None THEN clicked ELSE app.last_clicked
          IN  app' = IF selected_date # None /\ last_clicked # None
                     THEN [app EXCEPT !.pc = "download_meteo",
                                      !.selected_date = selected_date,
                                      !.last_clicked = last_clicked]
                     ELSE [app EXCEPT !.pc = "done", !.infos = 1,
                                      !.selected_date = selected_date,
                                      !.last_clicked = last_clicked]
    /\ UNCHANGED <<call, ret, disk, requests, fetcher, oco, log_rows>>

\* An interaction after a run has ended: the script runs again.
AppRerun ==
    /\ app.pc = "done"
    /\ requests + 2 <= MaxRequests
    /\ app' = AppFresh(app.bundle, app.last_clicked)
    /\ UNCHANGED <<call, ret, disk, requests, fetcher, oco, log_rows>>

AppDownload(at, prefix, next) ==
    /\ app.pc = at
    /\ \E response \in Responses(RequestList(prefix)) :
          LET r == download_era5(disk, requests, app.selected_date.year,
                       app.selected_date.month, app.selected_date.day, save_dir,
                       RequestList(prefix), prefix, response)
          IN  /\ disk' = r.disk
              /\ requests' = r.requests
              /\ app' = IF r.raised THEN Caught(app, at)
                        ELSE IF prefix = "meteo"
                        THEN [app EXCEPT !.pc = next, !.nc_meteo = r.nc_path]
                        ELSE [app EXCEPT !.pc = next, !.nc_veg = r.nc_path]
    /\ UNCHANGED <<call, ret, fetcher, oco, log_rows>>

\* Line 158
AppDownloadMeteo == AppDownload("download_meteo", "meteo", "download_veg")

\* Line 159
AppDownloadVeg == AppDownload("download_veg", "veg", "extract_meteo")

\* Line 162
AppExtractMeteo ==
    /\ app.pc = "extract_meteo"
    /\ LET r == extract_nearest_values(disk[app.nc_meteo], app.last_clicked[1],
                    app.last_clicked[2], meteo_vars)
       IN  app' = IF r.raised
                  THEN [Caught(app, "extract_meteo") EXCEPT !.extracted = @ + 1]
                  ELSE [app EXCEPT !.pc = "extract_veg", !.extracted = @ + 1,
                                   !.values_meteo = r.values]
    /\ UNCHANGED <<call, ret, disk, requests, fetcher, oco, log_rows>>

\* Line 163
AppExtractVeg ==
    /\ app.pc = "extract_veg"
    /\ LET r == extract_nearest_values(disk[app.nc_veg], app.last_clicked[1],
                    app.last_clicked[2], veg_vars)
       IN  app' = IF r.raised
                  THEN [Caught(app, "extract_veg") EXCEPT !.extracted = @ + 1]
                  ELSE [app EXCEPT !.pc = "predict", !.extracted = @ + 1,
                                   !.values_veg = r.values]
    /\ UNCHANGED <<call, ret, disk, requests, fetcher, oco, log_rows>>

\* Lines 164 to 182: the row, the test of the bundle and of the columns,
\* model.predict (which returns or raises) and the table.
AppPredict ==
    /\ app.pc = "predict"
    /\ LET all_values == DictMerge(app.values_meteo, app.values_veg)
           df == FeatureRow(app.selected_date, app.last_clicked[1],
                            app.last_clicked[2], all_values)
       IN  IF app.model /\ app.scaler_target /\ HasAllPredictors(df)
           THEN \E outcome \in {"returns", "raises"} :
                    app' = IF outcome = "raises"
                           THEN [Caught(app, "predict") EXCEPT
                                     !.df = df, !.predict_called = TRUE]
                           ELSE LET out == DictSet(df, "CO2", PredictCO2(df))
                                IN  [app EXCEPT !.pc = "done", !.df = out,
                                         !.predict_called = TRUE,
                                         !.table = <<[c \in {"date", "latitude",
                                                             "longitude", "CO2"}
                                                          |-> out[c]]>>]
           ELSE app' = [app EXCEPT !.pc = "done", !.df = df]
    /\ UNCHANGED <<call, ret, disk, requests, fetcher, oco, log_rows>>

NextApp ==
    \/ AppUi
    \/ AppRerun
    \/ AppDownloadMeteo
    \/ AppDownloadVeg
    \/ AppExtractMeteo
    \/ AppExtractVeg
    \/ AppPredict

SpecApp == InitApp /\ [][NextApp]_vars

(***************************************************************************)
(* oco2.py: the text of download_log.csv. A cell is a sequence of pieces   *)
(* of text in which the comma, the double quote and the space are pieces   *)
(* of their own; a line is such a sequence too, and a file is its lines.   *)
(***************************************************************************)
Comma == ","
Quote == "\""
Space == " "

\* sep.join(items), each item one piece
RECURSIVE JoinPieces(_, _)
JoinPieces(items, sep) ==
    IF Len(items) = 0 THEN <<>>
    ELSE IF Len(items) = 1 THEN <<items[1]>>
    ELSE <<items[1]>> \o sep \o JoinPieces(Tail(items), sep)

\* The same for items that are cells already.
RECURSIVE JoinCells(_, _)
JoinCells(cells, sep) ==
    IF Len(cells) = 0 THEN <<>>
    ELSE IF Len(cells) = 1 THEN cells[1]
    ELSE cells[1] \o sep \o JoinCells(Tail(cells), sep)

\* csv.QUOTE_MINIMAL: a cell that holds a comma or a quote is quoted. No cell
\* of this log holds a quote, so none is doubled.
CsvCell(cell) ==
    IF Comma \in Range(cell) \/ Quote \in Range(cell)
    THEN <<Quote>> \o cell \o <<Quote>>
    ELSE cell

CsvLine(cells) ==
    JoinCells([k \in 1..Len(cells) |-> CsvCell(cells[k])], <<Comma>>)

\* One line split at the commas outside quotes, the quotes dropped.
RECURSIVE ParseLine(_, _, _, _, _)
ParseLine(line, k, in_quotes, cell, cells) ==
    IF k > Len(line) THEN Append(cells, cell)
    ELSE IF line[k] = Quote
    THEN ParseLine(line, k + 1, ~in_quotes, cell, cells)
    ELSE IF line[k] = Comma /\ ~in_quotes
    THEN ParseLine(line, k + 1, in_quotes, <<>>, Append(cells, cell))
    ELSE ParseLine(line, k + 1, in_quotes, Append(cell, line[k]), cells)

\* A slip: every cell is written bare.
to_csv_unquoted(df) ==
    <<JoinPieces(df.columns, <<Comma>>)>>
    \o [k \in 1..Len(df.rows) |-> JoinCells(df.rows[k], <<Comma>>)]

\* df.to_csv(csv_file, index=False): the header line, then a line per row.
to_csv(df) ==
    <<CsvLine([k \in 1..Len(df.columns) |-> <<df.columns[k]>>])>>
    \o [k \in 1..Len(df.rows) |-> CsvLine(df.rows[k])]

\* pd.read_csv(csv_file): the first line names the columns. Every cell of
\* this log is text, which read_csv keeps as it is.
read_csv(lines) ==
    LET header == ParseLine(lines[1], 1, FALSE, <<>>, <<>>)
    IN  [columns |-> [k \in 1..Len(header) |-> header[k][1]],
         rows |-> [k \in 1..(Len(lines) - 1) |->
                       ParseLine(lines[k + 1], 1, FALSE, <<>>, <<>>)]]

\* The cell of row `row` of df under column c, empty when df has no such column.
CellAt(df, row, c) ==
    IF \E k \in 1..Len(df.columns) : df.columns[k] = c
    THEN row[CHOOSE k \in 1..Len(df.columns) : df.columns[k] = c]
    ELSE <<>>

\* pd.concat([df, new_entry], ignore_index=True): the columns of df, then
\* those only new_entry has; the rows of df, then those of new_entry.
concat(df, new_entry) ==
    LET extra == SelectSeq(new_entry.columns,
                           LAMBDA c : \A k \in 1..Len(df.columns) : df.columns[k] # c)
        columns == df.columns \o extra
    IN  [columns |-> columns,
         rows |-> [k \in 1..Len(df.rows) |->
                       [j \in 1..Len(columns) |-> CellAt(df, df.rows[k], columns[j])]]
                  \o [k \in 1..Len(new_entry.rows) |->
                       [j \in 1..Len(columns) |->
                            CellAt(new_entry, new_entry.rows[k], columns[j])]]]

(***************************************************************************)
(* oco2.py: the script run of a session after its button was pressed. A    *)
(* session is one browser session of the app; the sessions share the       *)
(* working directory. A step is one statement that touches the remote      *)
(* archive or a file. An exception ends the run where it is raised: the    *)
(* script has no handler.                                                  *)
(***************************************************************************)
Sessions == {1, 2}

single_level_vars ==
    <<"10m_u_component_of_wind", "10m_v_component_of_wind", "2m_temperature",
      "surface_pressure", "total_precipitation">>

vegetation_vars ==
    <<"high_vegetation_cover", "low_vegetation_cover",
      "leaf_area_index_high_vegetation", "leaf_area_index_low_vegetation",
      "type_of_high_vegetation", "type_of_low_vegetation">>

csv_file == "download_log.csv"

LogColumns == <<"date", "variables", "netcdf_files", "zip_file">>

\* Lines 21 to 24, 47, 70 and 74: the names an invocation for date d uses.
DateStr(d) == IntStr(d.year) \o "-" \o Pad2(d.month) \o "-" \o Pad2(d.day)
Ymd(d) == IntStr(d.year) \o Pad2(d.month) \o Pad2(d.day)
NcSingle(d) == "era5_single_" \o Ymd(d) \o ".nc"
NcVeg(d) == "era5_veg_" \o Ymd(d) \o ".nc"
ZipName(d) == "era5_combined_" \o Ymd(d) \o ".zip"

\* Lines 81 to 86: the one-row frame of an invocation for date d.
NewEntry(d) ==
    [columns |-> LogColumns,
     rows |-> << <<
         <<DateStr(d)>>,
         JoinPieces(single_level_vars \o vegetation_vars, <<Comma, Space>>),
         <<NcSingle(d), Comma, Space, NcVeg(d)>>,
         <<ZipName(d)>> >> >>]

\* A slip: the frame to write is the new row alone, whatever the log holds.
LogFrameNoConcat(fs, new_entry) == new_entry

\* Lines 88 to 92: the frame to write, from the log as it is on disk.
LogFrame(fs, new_entry) ==
    IF Exists(fs, csv_file)
    THEN concat(read_csv(fs[csv_file].lines), new_entry)
    ELSE new_entry

\* What client.retrieve(...).download(target) may do here: raise, or write
\* the file. oco2.py never opens the file, so its content is its request.
OcoResponses(variables) ==
    {[fail |-> TRUE],
     [fail |-> FALSE, file |-> [kind |-> "nc", variables |-> variables]]}

OcoIdle ==
    [pc |-> "idle", date |-> None, nc_single |-> "", nc_veg |-> "",
     zip_filename |-> "", new_entry |-> [columns |-> <<>>, rows |-> <<>>],
     df |-> [columns |-> <<>>, rows |-> <<>>], offered_zip |-> <<>>,
     offered_csv |-> <<>>, successes |-> 0, errors |-> 0, raised_at |-> "",
     read_at |-> 0, disk_before |-> EmptyDisk]

InitOco ==
    /\ disk = EmptyDisk
    /\ requests = 0
    /\ oco = [s \in Sessions |-> OcoIdle]
    /\ log_rows = <<>>
    /\ call = NoCall /\ ret = NoRet
    /\ app = [pc |-> "off"] /\ fetcher = [pc |-> "off"]

Running(s) == oco[s].pc \notin {"idle", "done", "crashed"}

\* The exception leaves the script: no st.error of the script's own.
Crash(s, at) == [oco EXCEPT ![s].pc = "crashed", ![s].raised_at = at]

\* Lines 14 to 26 and the names of lines 47, 70, 74 and 81: the button is
\* pressed with date d in the widget.
OcoClick(s) ==
    /\ ~Running(s)
    /\ Len(log_rows) < MaxRuns
    /\ \E d \in Dates :
          oco' = [oco EXCEPT ![s] =
                      [OcoIdle EXCEPT !.pc = "fetch_single", !.date = d,
                                      !.nc_single = NcSingle(d),
                                      !.nc_veg = NcVeg(d),
                                      !.zip_filename = ZipName(d),
                                      !.new_entry = NewEntry(d),
                                      !.disk_before = disk]]
    /\ UNCHANGED <<call, ret, disk, requests, app, fetcher, log_rows>>

OcoFetch(s, at, variables, target, next) ==
    /\ oco[s].pc = at
    /\ \E response \in OcoResponses(variables) :
          IF response.fail
          THEN /\ oco' = Crash(s, at)
               /\ disk' = disk
          ELSE /\ oco' = [oco EXCEPT ![s].pc = next]
               /\ disk' = WriteFile(disk, target, response.file)
    /\ UNCHANGED <<call, ret, requests, app, fetcher, log_rows>>

\* Line 48
OcoFetchSingle(s) ==
    OcoFetch(s, "fetch_single", single_level_vars, oco[s].nc_single, "fetch_veg")

\* Line 71
OcoFetchVeg(s) ==
    OcoFetch(s, "fetch_veg", vegetation_vars, oco[s].nc_veg, "zip_open")

\* Line 75: zipfile.ZipFile(zip_filename, "w") creates or truncates the archive.
OcoZipOpen(s) ==
    /\ oco[s].pc = "zip_open"
    /\ disk' = WriteFile(disk, oco[s].zip_filename,
                         [kind |-> "zip", members |-> <<>>])
    /\ oco' = [oco EXCEPT ![s].pc = "zip_single"]
    /\ UNCHANGED <<call, ret, requests, app, fetcher, log_rows>>

\* zipf.write(name): raises when name or the archive is gone.
OcoZipWrite(s, at, name, next) ==
    /\ oco[s].pc = at
    /\ IF Exists(disk, name) /\ Exists(disk, oco[s].zip_filename)
       THEN /\ disk' = WriteFile(disk, oco[s].zip_filename,
                           [kind |-> "zip",
                            members |-> Append(disk[oco[s].zip_filename].members,
                                               [name |-> name, content |-> disk[name]])])
            /\ oco' = [oco EXCEPT ![s].pc = next]
       ELSE /\ disk' = disk
            /\ oco' = Crash(s, at)
    /\ UNCHANGED <<call, ret, requests, app, fetcher, log_rows>>

\* Line 76
OcoZipSingle(s) == OcoZipWrite(s, "zip_single", oco[s].nc_single, "zip_veg")

\* Line 77
OcoZipVeg(s) == OcoZipWrite(s, "zip_veg", oco[s].nc_veg, "log_read")

\* Lines 88 to 92
OcoLogRead(s) ==
    /\ oco[s].pc = "log_read"
    /\ oco' = [oco EXCEPT ![s].pc = "log_write",
                          ![s].df = LogFrame(disk, oco[s].new_entry),
                          ![s].read_at = Len(log_rows)]
    /\ UNCHANGED <<call, ret, disk, requests, app, fetcher, log_rows>>

\* Lines 94 and 97
OcoLogWrite(s) ==
    /\ oco[s].pc = "log_write"
    /\ disk' = WriteFile(disk, csv_file,
                         [kind |-> "csv", lines |-> to_csv(oco[s].df)])
    /\ log_rows' = Append(log_rows, oco[s].date)
    /\ oco' = [oco EXCEPT ![s].pc = "offer_zip", ![s].successes = @ + 1]
    /\ UNCHANGED <<call, ret, requests, app, fetcher>>

\* Lines 100 to 106: open(zip_filename, "rb") raises when the archive is gone.
OcoOfferZip(s) ==
    /\ oco[s].pc = "offer_zip"
    /\ oco' = IF Exists(disk, oco[s].zip_filename)
              THEN [oco EXCEPT ![s].pc = "offer_csv",
                               ![s].offered_zip = <<disk[oco[s].zip_filename]>>]
              ELSE Crash(s, "offer_zip")
    /\ UNCHANGED <<call, ret, disk, requests, app, fetcher, log_rows>>

\* Lines 109 to 115
OcoOfferCsv(s) ==
    /\ oco[s].pc = "offer_csv"
    /\ oco' = IF Exists(disk, csv_file)
              THEN [oco EXCEPT ![s].pc = "rm_single",
                               ![s].offered_csv = <<disk[csv_file]>>]
              ELSE Crash(s, "offer_csv")
    /\ UNCHANGED <<call, ret, disk, requests, app, fetcher, log_rows>>

\* os.remove(name): raises when name is gone.
OcoRemove(s, at, name, next) ==
    /\ oco[s].pc = at
    /\ IF Exists(disk, name)
       THEN /\ disk' = RemoveFile(disk, name)
            /\ oco' = [oco EXCEPT ![s].pc = next]
       ELSE /\ disk' = disk
            /\ oco' = Crash(s, at)
    /\ UNCHANGED <<call, ret, requests, app, fetcher, log_rows>>

\* Line 118
OcoRemoveSingle(s) == OcoRemove(s, "rm_single", oco[s].nc_single, "rm_veg")

\* Line 119
OcoRemoveVeg(s) == OcoRemove(s, "rm_veg", oco[s].nc_veg, "rm_zip")

\* Line 120
OcoRemoveZip(s) == OcoRemove(s, "rm_zip", oco[s].zip_filename, "done")

OcoStep(s) ==
    \/ OcoFetchSingle(s)
    \/ OcoFetchVeg(s)
    \/ OcoZipOpen(s)
    \/ OcoZipSingle(s)
    \/ OcoZipVeg(s)
    \/ OcoLogRead(s)
    \/ OcoLogWrite(s)
    \/ OcoOfferZip(s)
    \/ OcoOfferCsv(s)
    \/ OcoRemoveSingle(s)
    \/ OcoRemoveVeg(s)
    \/ OcoRemoveZip(s)

\* One session: an invocation starts when the one before it has ended.
NextOco == OcoClick(1) \/ OcoStep(1)

SpecOco == InitOco /\ [][NextOco]_vars

\* The log after invocations for `dates`, one after the other.
RECURSIVE LogAfter(_)
LogAfter(dates) ==
    IF Len(dates) = 0 THEN EmptyDisk
    ELSE LET fs == LogAfter(SubSeq(dates, 1, Len(dates) - 1))
         IN  WriteFile(fs, csv_file,
                 [kind |-> "csv",
                  lines |-> to_csv(LogFrame(fs, NewEntry(dates[Len(dates)])))])

\* Two sessions press the button once each, over a log that is not there
\* yet or holds the row of one earlier invocation; their steps interleave.
InitOcoConc ==
    /\ \E earlier \in {<<>>} \cup {<<d>> : d \in Dates} :
          /\ disk = LogAfter(earlier)
          /\ log_rows = earlier
    /\ requests = 0
    /\ oco = [s \in Sessions |-> OcoIdle]
    /\ call = NoCall /\ ret = NoRet
    /\ app = [pc |-> "off"] /\ fetcher = [pc |-> "off"]

OcoClickOnce(s) ==
    /\ oco[s].pc = "idle"
    /\ OcoClick(s)

NextOcoConc == \E s \in Sessions : OcoClickOnce(s) \/ OcoStep(s)

SpecOcoConc == InitOcoConc /\ [][NextOcoConc]_vars

(***************************************************************************)
(* The claims about app.py's prediction flow.                              *)
(***************************************************************************)

\* C1: in a run that assembled its row with the model and the scaler
\* loaded, model.predict is called if and only if each of the thirteen
\* predictors holds a value, and a CO2 column or a prediction table appears
\* only then; a field extract_nearest_values recorded as None keeps the run
\* from predicting.
C1_PredictOnlyIfComplete ==
    (app.pc = "done" /\ app.df # EmptyDict /\ app.model /\ app.scaler_target) =>
        /\ app.predict_called <=> HasAllPredictorValues(app.df)
        /\ ("CO2" \in DOMAIN app.df \/ app.table # <<>>) =>
               HasAllPredictorValues(app.df)

\* C5: a run whose meteorology fetch returned and whose vegetation fetch
\* raised ends with one error message of the flow, which is the only error
\* on the page when the bundle loaded, and with no extraction, no call of
\* model.predict, no CO2 column and no table.
C5_VegFetchFails ==
    (app.pc = "done" /\ app.raised_at = "download_veg") =>
        /\ app.nc_meteo # ""
        /\ app.errors = 1
        /\ app.bundle = "loaded" => app.startup_errors + app.errors = 1
        /\ app.extracted = 0
        /\ ~app.predict_called
        /\ "CO2" \notin DOMAIN app.df
        /\ app.table = <<>>

\* The meteorology file is on disk, the vegetation request was issued and
\* raised, and the bundle had loaded.
C5_Witness ==
    /\ app.pc = "done" /\ app.raised_at = "download_veg"
    /\ app.bundle = "loaded"
    /\ Exists(disk, "era5_data/meteo_2020-06-15.nc")
    /\ ~Exists(disk, "era5_data/veg_2020-06-15.nc")
    /\ requests >= 2
    /\ app.errors = 1

(***************************************************************************)
(* The claims about oco2.py's download flow.                               *)
(***************************************************************************)
\* The rows of the log on disk, as read_csv gives them.
LogTable(fs) ==
    IF Exists(fs, csv_file) THEN read_csv(fs[csv_file].lines)
    ELSE [columns |-> LogColumns, rows |-> <<>>]

RowOf(d) == NewEntry(d).rows[1]

\* C6: when an invocation has ended (both fetches succeeded, the archive
\* was offered), neither of the two data files nor the archive is on disk;
\* the archive offered held exactly the two data files, as fetched; and the
\* only file on disk that was not there before the invocation is the log.
C6_Cleanup ==
    \A s \in Sessions :
        oco[s].pc = "done" =>
            /\ ~Exists(disk, oco[s].nc_single)
            /\ ~Exists(disk, oco[s].nc_veg)
            /\ ~Exists(disk, oco[s].zip_filename)
            /\ Len(oco[s].offered_zip) = 1
            /\ oco[s].offered_zip[1].members =
                   <<[name |-> oco[s].nc_single,
                      content |-> [kind |-> "nc", variables |-> single_level_vars]],
                     [name |-> oco[s].nc_veg,
                      content |-> [kind |-> "nc", variables |-> vegetation_vars]]>>
            /\ DOMAIN disk \ DOMAIN oco[s].disk_before \subseteq {csv_file}
            /\ Exists(disk, csv_file)

\* An invocation has ended; only the log is on disk. An earlier invocation
\* for the same date had failed at its second fetch and left a file.
C6_Witness ==
    \E s \in Sessions :
        /\ oco[s].pc = "done"
        /\ Len(oco[s].offered_zip) = 1
        /\ Len(oco[s].offered_zip[1].members) = 2
        /\ DOMAIN disk = {csv_file}
        /\ oco[s].nc_single \in DOMAIN oco[s].disk_before

\* C7: with invocations one at a time, the log on disk holds the four
\* columns and one row for each invocation whose write completed, in the
\* order of the invocations, the i-th row with the date string, the variable
\* list, the data-file names and the archive name of the i-th of them; there
\* is no log before the first.
C7_LogAppendOnly ==
    /\ Exists(disk, csv_file) <=> Len(log_rows) > 0
    /\ LogTable(disk).columns = LogColumns
    /\ LogTable(disk).rows = [i \in 1..Len(log_rows) |-> RowOf(log_rows[i])]

\* Three invocations, the second for another date than the first, and the
\* third just written over a log of two rows.
C7_Witness ==
    /\ Len(log_rows) = 3
    /\ log_rows[1] # log_rows[2]
    /\ Len(disk[csv_file].lines) = 4
    /\ LogTable(disk).rows[1][1] = <<"2020-06-15">>
    /\ LogTable(disk).rows[2][3] =
           <<"era5_single_20201105.nc", Comma, Space, "era5_veg_20201105.nc">>
    /\ \E s \in Sessions : oco[s].pc = "offer_zip"

\* C8: no failure leaves a flow uncaught: a run in which something raised
\* ends with one error message of the script's own.
C8_AllErrorsCaught ==
    \A s \in Sessions :
        /\ oco[s].pc # "crashed"
        /\ oco[s].raised_at # "" => oco[s].errors = 1

\* C9: an attempt that ended with a failed fetch has left the files as they
\* were before the attempt.
C9_NoPartialState ==
    \A s \in Sessions :
        (oco[s].pc = "crashed"
           /\ oco[s].raised_at \in {"fetch_single", "fetch_veg"}) =>
            disk = oco[s].disk_before

\* C10: with two invocations at the same time, a write of the log by an
\* invocation that read it after the last write adds its row to the rows on
\* disk; a write by an invocation that read the log before the other one
\* wrote puts its row in the place of the other one's, so that the log holds
\* one of the two new rows, the second writer's.
C10_LostUpdate ==
    [][\A s \in Sessions :
          (oco[s].pc = "log_write" /\ oco'[s].pc = "offer_zip") =>
              LET before == LogTable(disk).rows
                  after == LogTable(disk').rows
              IN  IF oco[s].read_at = Len(log_rows)
                  THEN after = Append(before, RowOf(oco[s].date))
                  ELSE /\ Len(before) > 0
                       /\ after = Append(SubSeq(before, 1, Len(before) - 1),
                                         RowOf(oco[s].date))]_vars

\* Both invocations have ended, for different dates, over a log of one
\* earlier row: both wrote, and the log holds the earlier row and the second
\* writer's row, not the first writer's.
C10_Witness ==
    /\ \A s \in Sessions : oco[s].pc = "done"
    /\ oco[1].date # oco[2].date
    /\ Len(log_rows) = 3
    /\ LogTable(disk).rows = <<RowOf(log_rows[1]), RowOf(log_rows[3])>>
    /\ RowOf(log_rows[2]) \notin Range(LogTable(disk).rows)

====
